---- MODULE Spec2Model ----
(***************************************************************************)
(* Generation pipeline of the delay-based control logic                    *)
(* (compiler/modules/control_logic_delay.py) and of the ROM bank           *)
(* (compiler/modules/rom_base_bank.py): netlist synthesis, sizing,         *)
(* placement, routing and verification, one action per method.             *)
(*                                                                         *)
(* Lines 394-397 and 649 of control_logic_delay.py are indented with tabs; *)
(* they are read as statements of the method they stand in.                *)
(***************************************************************************)
EXTENDS Integers, Sequences, FiniteSets, TLC

\* ------------------------------------------------------------------ bounds
\* largest width of a catalog cell
MaxW == 2
\* largest unit row height / delay chain height
MaxH == 2
\* largest delay value given to the sizing functions
MaxDelay == 6
\* largest previous stage count / fanout given to the sizing functions
MaxPrev == 2
\* largest parasitic delay of the minimum inverter
MaxPinv == 1
MaxFanout == 4

\* ------------------------------------------------- technology (rule database)
m1_pitch == 1
m2_pitch == 1
m3_pitch == 1
route_layer_width == 1
route_layer_pitch == 1

VARIABLES
    cfg,                \* constructor arguments and OPTS of this build
    tech,               \* geometry of the catalog cells
    pc,                 \* the steps of Program still to run, next first
    status,             \* "running", "done" or the exception that ended the build
    input_list, dff_output_list, internal_bus_list, output_list,
    pins,               \* ordered module pin list <<name, direction>>
    mods,               \* child modules created by add_modules
    sizing,             \* quantities derived by add_modules
    insts,              \* ordered instance list [name, mod, conns]
    pos,                \* placed instances: name -> [x, y, mirror, row, times placed]
    row_end_inst,       \* right-most instance of every logic row
    geom,               \* control_x_offset, width, height, control_logic_center;
                        \* origin_reads: <<step, instance>> for every pin location
                        \* read off an instance still at the offset add_inst gave it
    input_bus,          \* nets of the vertical bus, in track order
    attached,           \* pins joined to a bus track <<inst, pin, net>>
    wires,              \* local pin-to-pin wires <<inst, pin, inst, pin>>
    layout_pins,        \* external layout pins [name, x_end]
    boundary,           \* add_boundary has run
    verified,           \* DRC_LVS has run
    run,                \* number of the build (1 or 2) with these arguments
    prev,               \* netlist of the previous build with these arguments
    sz_in,              \* arguments of a sizing call
    sz_out,             \* result of a sizing call
    opts,               \* the global options object OPTS
    catalog,            \* modules held by the shared factory
    tpc,                \* per test run: its test and the steps still to run
    handed              \* per test run: the modules it was handed, in order

cfgVars     == <<cfg, tech>>
ctlVars     == <<pc, status>>
busVars     == <<input_list, dff_output_list, internal_bus_list, output_list>>
netVars     == <<pins, mods, sizing, insts>>
placeVars   == <<pos, row_end_inst, geom>>
routeVars   == <<input_bus, attached, wires, layout_pins>>
endVars     == <<boundary, verified>>
sharedVars  == <<opts, catalog, tpc, handed>>
runVars     == <<run, prev, sharedVars>>
szVars      == <<sz_in, sz_out>>
buildVars   == <<busVars, netVars, placeVars, routeVars, endVars>>
vars        == <<cfgVars, ctlVars, buildVars, runVars, szVars>>

\* ------------------------------------------------------------ input domains
PortTypes   == {"rw", "r", "w"}
\* "x" stands for any string that is none of the three port types
AnyPortType == PortTypes \cup {"x"}

Dims ==
    { [num_rows |-> 4, words_per_row |-> 1, word_size |-> 9, spare_columns |-> 0],
      [num_rows |-> 4, words_per_row |-> 2, word_size |-> 9, spare_columns |-> 1],
      [num_rows |-> 0, words_per_row |-> 1, word_size |-> 9, spare_columns |-> 0] }

StageCounts == {2, 3}

ControlCfgs ==
    { [kind |-> "control_logic_delay", port_type |-> p, dims |-> d,
       netlist_only |-> n, delay_chain_stages |-> s, is_unit_test |-> FALSE] :
         p \in AnyPortType, d \in Dims, n \in BOOLEAN, s \in StageCounts }

RomCfgs ==
    { [kind |-> "rom_base_bank", port_type |-> "r", dims |-> d,
       netlist_only |-> n, delay_chain_stages |-> 3, is_unit_test |-> u] :
         d \in Dims, n \in BOOLEAN, u \in BOOLEAN }

Techs ==
    [w_drv : 1..MaxW, w_gate : 1..MaxW, w_and : 1..MaxW, w_dff : {1, MaxW},
     w_delay : 1..MaxW, h : {1, MaxH}, dh : {1, MaxH}]

UnitTech == [w_drv |-> 1, w_gate |-> 1, w_and |-> 1, w_dff |-> 1,
             w_delay |-> 1, h |-> 1, dh |-> 1]

\* ----------------------------------------------------------------- helpers
SeqToSet(s) == { s[i] : i \in 1..Len(s) }

Max(a, b) == IF a >= b THEN a ELSE b

RECURSIVE MaxOf(_)
MaxOf(S) == IF S = {} THEN 0
            ELSE LET x == CHOOSE y \in S : TRUE IN Max(x, MaxOf(S \ {x}))

\* math.log(n, 2) for n >= 1 (exact on powers of two)
RECURSIVE Log2(_)
Log2(n) == IF n <= 1 THEN 0 ELSE 1 + Log2(n \div 2)

supply_list == <<"vdd", "gnd">>

\* ------------------------------------------------ __init__ (derived fields)
num_spare_cols == cfg.dims.spare_columns
num_cols       == cfg.dims.word_size * cfg.dims.words_per_row + num_spare_cols
num_words      == cfg.dims.num_rows * cfg.dims.words_per_row
num_control_signals == IF cfg.port_type = "rw" THEN 2 ELSE 1


\* ------------------------------------------------------- the call sequences
Op(o)        == [op |-> o, row |-> 0]
OpRow(o, r)  == [op |-> o, row |-> r]

\* create_instances creating the write-enable row for every port type
create_instances_always_wen ==
    <<Op("create_dffs"), Op("create_clk_buf_row"), Op("create_gated_clk_bar_row"),
      Op("create_gated_clk_buf_row"), Op("create_delay"), Op("create_glitches"),
      Op("create_wlen_row"), Op("create_wen_row")>>
    \o (IF cfg.port_type = "rw" \/ cfg.port_type = "r" THEN <<Op("create_sen_row")>> ELSE <<>>)
    \o <<Op("create_pen_row")>>

\* create_instances: the create_* methods in call order
create_instances ==
    <<Op("create_dffs"), Op("create_clk_buf_row"), Op("create_gated_clk_bar_row"),
      Op("create_gated_clk_buf_row"), Op("create_delay"), Op("create_glitches"),
      Op("create_wlen_row")>>
    \o (IF cfg.port_type = "rw" \/ cfg.port_type = "w" THEN <<Op("create_wen_row")>> ELSE <<>>)
    \o (IF cfg.port_type = "rw" \/ cfg.port_type = "r" THEN <<Op("create_sen_row")>> ELSE <<>>)
    \o <<Op("create_pen_row")>>

create_netlist ==
    <<Op("setup_signal_busses"), Op("add_pins"), Op("add_modules")>> \o create_instances

\* the row-placing calls of place_instances; the k-th is called with row = k - 1
place_rows ==
    <<"place_clk_buf_row", "place_gated_clk_bar_row", "place_gated_clk_buf_row">>
    \o (IF cfg.port_type = "rw" \/ cfg.port_type = "r" THEN <<"place_sen_row">> ELSE <<>>)
    \o (IF cfg.port_type = "rw" \/ cfg.port_type = "w" THEN <<"place_wen_row">> ELSE <<>>)
    \o <<"place_pen_row", "place_wlen_row", "place_glitch2_row", "place_glitch3_row">>

\* place_instances: its calls and its own statements, in order
place_instances ==
    <<Op("place_instances_begin"), Op("place_dffs"), Op("place_instances_x_offset")>>
    \o [k \in 1..Len(place_rows) |-> OpRow(place_rows[k], k - 1)]
    \o <<Op("place_instances_center"), OpRow("place_delay", 4), Op("place_instances_size")>>

route_all ==
    <<Op("route_rails"), Op("route_dffs"), Op("route_wlen")>>
    \o (IF cfg.port_type = "rw" \/ cfg.port_type = "w" THEN <<Op("route_wen")>> ELSE <<>>)
    \o (IF cfg.port_type = "rw" \/ cfg.port_type = "r" THEN <<Op("route_sen")>> ELSE <<>>)
    \o <<Op("route_delay"), Op("route_pen"), Op("route_clk_buf"),
         Op("route_gated_clk_bar"), Op("route_gated_clk_buf"), Op("route_supply")>>

\* create_layout routing before it places
create_layout_route_first ==
    route_all \o place_instances \o <<Op("add_boundary"), Op("DRC_LVS")>>

create_layout ==
    place_instances \o route_all \o <<Op("add_boundary"), Op("DRC_LVS")>>

\* __init__ going on to create_layout whatever netlist_only says
control_program_always_layout == create_netlist \o create_layout

\* control_logic_delay.__init__: create_netlist, then create_layout unless netlist_only
control_program ==
    create_netlist \o (IF ~cfg.netlist_only THEN create_layout ELSE <<>>)

rom_create_netlist ==
    <<Op("rom_add_modules"), Op("rom_add_pins"), Op("rom_create_instances")>>

\* place_instances placing the column mux before the bitline inverter
rom_place_instances_mux_first ==
    <<Op("place_row_decoder"), Op("place_data_array"), Op("place_col_mux"),
      Op("place_bitline_inverter"), Op("place_col_decoder"), Op("place_control_logic"),
      Op("place_output_buffer")>>

rom_place_instances ==
    <<Op("place_row_decoder"), Op("place_data_array"), Op("place_bitline_inverter"),
      Op("place_col_mux"), Op("place_col_decoder"), Op("place_control_logic"),
      Op("place_output_buffer")>>

rom_route_layout ==
    <<Op("route_decode_outputs"), Op("route_precharge"), Op("route_clock"),
      Op("route_array_outputs"), Op("place_top_level_pins"), Op("route_supplies"),
      Op("route_output_buffers")>>

rom_create_layout ==
    <<Op("setup_layout_constants")>> \o rom_place_instances \o rom_route_layout
    \o <<Op("rom_set_size"), Op("add_boundary")>>
    \o (IF ~cfg.is_unit_test THEN <<Op("DRC_LVS")>> ELSE <<>>)

\* the ROM bank is built by its owner: create_netlist, then create_layout
\* unless netlist_only
rom_program ==
    <<Op("rom_init")>> \o rom_create_netlist \o (IF ~cfg.netlist_only THEN rom_create_layout ELSE <<>>)

Program == IF cfg.kind = "rom_base_bank" THEN rom_program ELSE control_program

\* steps already executed, in order
hist == SubSeq(Program, 1, Len(Program) - Len(pc))

At(o)    == status = "running" /\ pc # <<>> /\ Head(pc).op = o
Advance  == /\ pc' = Tail(pc)
            /\ status' = IF Tail(pc) = <<>> THEN "done" ELSE "running"
Raise(e) == status' = e /\ pc' = pc

\* --------------------------------------------------------- fresh build state
NoPos == [i \in {} |-> [x |-> 0, y |-> 0, mirror |-> "R0", row |-> 0, times |-> 0]]

NoGeom == [set |-> {}, control_x_offset |-> 0, width |-> 0, height |-> 0,
           center_x |-> 0, center_y |-> 0, bus_x |-> 0, origin_reads |-> {}]

NoSizing == [set |-> FALSE, num_flops |-> 0, clock_fanout |-> 0, size_list |-> <<>>,
             fanout_list |-> <<>>, pinout_list |-> <<>>]

NoNetlist == [pins |-> <<>>, insts |-> <<>>]

Fresh ==
    /\ pc = Program /\ status = "running"
    /\ input_list = <<>> /\ dff_output_list = <<>>
    /\ internal_bus_list = <<>> /\ output_list = <<>>
    /\ pins = <<>> /\ mods = {} /\ sizing = NoSizing /\ insts = <<>>
    /\ pos = NoPos /\ row_end_inst = <<>> /\ geom = NoGeom
    /\ input_bus = <<>> /\ attached = {} /\ wires = {} /\ layout_pins = {}
    /\ boundary = FALSE /\ verified = FALSE

NoSizingCall == [f |-> "none", wl_delay |-> 0, sen_delay |-> 0,
                 previous_stages |-> 0, previous_fanout |-> 0, pinv |-> 0]

NoSizingResult == [state |-> "none", stages |-> 0, fanout |-> 0]

\* options as init_openram leaves them
DefaultOpts ==
    [bitcell |-> "bitcell", num_rw_ports |-> 1, num_r_ports |-> 0, num_w_ports |-> 0]

\* no test is running
NoRunners ==
    /\ opts = DefaultOpts /\ catalog = {}
    /\ tpc = <<>> /\ handed = <<>>

Init ==
    /\ \/ cfg \in ControlCfgs /\ ~cfg.netlist_only /\ tech \in Techs
       \/ cfg \in ControlCfgs /\ cfg.netlist_only /\ tech = UnitTech
       \/ cfg \in RomCfgs /\ tech = UnitTech
    /\ Fresh
    /\ run = 1 /\ prev = NoNetlist /\ NoRunners
    /\ sz_in = NoSizingCall /\ sz_out = NoSizingResult

\* ------------------------------------------------------- netlist synthesis
\* a bus channel with no spare track
bus_width_without_spare == Len(internal_bus_list) * m2_pitch

internal_bus_width == (Len(internal_bus_list) + 1) * m2_pitch

\* input control signals of a port type, without web when it is "rw"
input_list_without_web(pt) == <<"csb">>

\* List of input control signals
input_list_of(pt) == IF pt = "rw" THEN <<"csb", "web">> ELSE <<"csb">>

dff_output_list_of(pt) ==
    IF pt = "rw" THEN <<"cs_bar", "cs", "we_bar", "we">> ELSE <<"cs_bar", "cs">>

\* list of output control signals (for making a vertical bus)
internal_bus_list_of(pt) ==
    IF pt = "rw"
    THEN <<"glitch2", "glitch3", "delay1", "delay2", "delay3", "delay4", "delay5",
           "gated_clk_bar", "gated_clk_buf", "we", "we_bar", "clk_buf", "cs">>
    ELSE <<"glitch2", "glitch3", "delay1", "delay2", "delay3", "delay4", "delay5",
           "gated_clk_bar", "gated_clk_buf", "clk_buf", "cs">>

\* Outputs to the bank
output_list_of(pt) ==
    (IF pt = "rw" THEN <<"s_en", "w_en">>
     ELSE IF pt = "r" THEN <<"s_en">>
     ELSE <<"w_en">>)
    \o <<"p_en_bar", "wl_en", "clk_buf">>

setup_signal_busses ==
    /\ At("setup_signal_busses")
    /\ input_list' = input_list_of(cfg.port_type)
    /\ dff_output_list' = dff_output_list_of(cfg.port_type)
    /\ internal_bus_list' = internal_bus_list_of(cfg.port_type)
    /\ output_list' = output_list_of(cfg.port_type)
    /\ Advance
    /\ UNCHANGED <<cfgVars, netVars, placeVars, routeVars, endVars, runVars, szVars>>

PinList(names, dir) == [i \in 1..Len(names) |-> <<names[i], dir>>]

\* add_pins walking the outputs in an order that is not fixed
add_pins_unordered ==
    /\ At("add_pins")
    /\ \E outs \in {output_list, [i \in 1..Len(output_list) |->
                                     output_list[Len(output_list) + 1 - i]]} :
          pins' = pins \o PinList(input_list \o <<"clk">>, "INPUT")
                       \o PinList(outs, "OUTPUT")
                       \o <<<<"vdd", "POWER">>, <<"gnd", "GROUND">>>>
    /\ Advance
    /\ UNCHANGED <<cfgVars, busVars, mods, sizing, insts, placeVars, routeVars,
                   endVars, runVars, szVars>>

add_pins ==
    /\ At("add_pins")
    /\ pins' = pins \o PinList(input_list \o <<"clk">>, "INPUT")
                    \o PinList(output_list, "OUTPUT")
                    \o <<<<"vdd", "POWER">>, <<"gnd", "GROUND">>>>
    /\ Advance
    /\ UNCHANGED <<cfgVars, busVars, mods, sizing, insts, placeVars, routeVars,
                   endVars, runVars, szVars>>

\* int(n / d) for n >= 0
IntDiv(n, d) == n \div d

\* math.log taking every argument
log_never_fails == FALSE

\* math.log(self.num_words, 2) + math.log(self.words_per_row, 2) raises
\* ValueError when an argument is not positive
log_fails == num_words <= 0 \/ cfg.dims.words_per_row <= 0

\* the parity check letting every stage count through
stages_check_always_passes == TRUE

\* debug.check(OPTS.delay_chain_stages % 2, ...)
stages_check_passes == cfg.delay_chain_stages % 2 # 0

add_modules ==
    /\ At("add_modules")
    /\ IF log_fails
       THEN \* math.log raises ValueError
            /\ mods' = {"dff", "ctrl_dff_array", "and2"}
            /\ sizing' = sizing
            /\ Raise("ValueError")
       ELSE LET addr_flops   == Log2(num_words) + Log2(cfg.dims.words_per_row)
                num_flops    == addr_flops + cfg.dims.word_size + num_spare_cols
                                + num_control_signals
                clock_fanout == 5 * num_flops + 5
                size_list    == <<Max(IntDiv(cfg.dims.num_rows, 9), 1),
                                  Max(IntDiv(cfg.dims.num_rows, 3), 1)>>
                created      == {"dff", "ctrl_dff_array", "and2", "clk_buf_driver",
                                 "wl_en_driver", "wl_en_and", "wen_and", "sen_and3",
                                 "inv", "p_en_bar_driver", "nand2"}
                sized        == [sizing EXCEPT !.set = TRUE, !.num_flops = num_flops,
                                                !.clock_fanout = clock_fanout,
                                                !.size_list = size_list]
            IN  IF ~stages_check_passes
                THEN \* debug.check fails
                     /\ sizing' = sized
                     /\ mods' = created /\ Raise("check_failed")
                ELSE \* multi_delay_chain(fanout_list = 29 * [...], pinout_list = [...])
                     /\ sizing' = [sized EXCEPT
                                      !.fanout_list = [i \in 1..29 |->
                                                          "delay_chain_fanout_per_stage"],
                                      !.pinout_list = <<2, 12, 13, 15, 29>>]
                     /\ mods' = created \cup {"multi_delay_chain"} /\ Advance
    /\ UNCHANGED <<cfgVars, busVars, pins, insts, placeVars, routeVars,
                   endVars, runVars, szVars>>

Inst(n, m, c) == [name |-> n, mod |-> m, conns |-> c]

\* add_inst followed by connect_inst, once per instance of `new`
AddInsts(o, new) ==
    /\ At(o)
    /\ insts' = insts \o new
    /\ Advance
    /\ UNCHANGED <<cfgVars, busVars, pins, mods, sizing, placeVars, routeVars,
                   endVars, runVars, szVars>>

\* create_dffs leaving the clock out of the connection list
create_dffs_without_clk ==
    AddInsts("create_dffs",
             <<Inst("ctrl_dffs", "ctrl_dff_array",
                    input_list \o dff_output_list \o supply_list)>>)

create_dffs ==
    AddInsts("create_dffs",
             <<Inst("ctrl_dffs", "ctrl_dff_array",
                    input_list \o dff_output_list \o <<"clk_buf">> \o supply_list)>>)

create_clk_buf_row ==
    AddInsts("create_clk_buf_row",
             <<Inst("clkbuf", "clk_buf_driver", <<"clk", "clk_buf", "vdd", "gnd">>)>>)

create_gated_clk_bar_row ==
    AddInsts("create_gated_clk_bar_row",
             <<Inst("inv_clk_bar", "inv", <<"clk_buf", "clk_bar", "vdd", "gnd">>),
               Inst("and2_gated_clk_bar", "and2",
                    <<"clk_bar", "cs", "gated_clk_bar", "vdd", "gnd">>)>>)

create_gated_clk_buf_row ==
    AddInsts("create_gated_clk_buf_row",
             <<Inst("and2_gated_clk_buf", "and2",
                    <<"clk_buf", "cs", "gated_clk_buf", "vdd", "gnd">>)>>)

create_delay ==
    AddInsts("create_delay",
             <<Inst("multi_delay_chain", "multi_delay_chain",
                    <<"gated_clk_buf", "delay1", "delay2", "delay3", "delay4", "delay5",
                      "vdd", "gnd">>)>>)

create_glitches ==
    AddInsts("create_glitches",
             <<Inst("nand2_glitch1", "nand2", <<"delay1", "delay3", "glitch1", "vdd", "gnd">>),
               Inst("nand2_glitch2", "nand2",
                    <<"gated_clk_buf", "delay4", "glitch2", "vdd", "gnd">>),
               Inst("nand2_glitch3", "nand2", <<"delay2", "delay5", "glitch3", "vdd", "gnd">>)>>)

create_wlen_row ==
    AddInsts("create_wlen_row",
             <<Inst("and_wl_en_unbuf", "wl_en_and",
                    <<"cs", "glitch2", "wl_en_unbuf", "vdd", "gnd">>),
               Inst("buf_wl_en", "wl_en_driver", <<"wl_en_unbuf", "wl_en", "vdd", "gnd">>)>>)

create_wen_row ==
    AddInsts("create_wen_row",
             <<Inst("inv_glitch3_bar", "inv", <<"glitch3", "glitch3_bar", "vdd", "gnd">>),
               Inst("and_w_en", "wen_and",
                    <<IF cfg.port_type = "rw" THEN "we" ELSE "cs",
                      "glitch2", "glitch3_bar", "w_en", "vdd", "gnd">>)>>)

create_sen_row ==
    AddInsts("create_sen_row",
             <<Inst("and_s_en", "sen_and3",
                    <<"glitch3", "gated_clk_bar",
                      IF cfg.port_type = "rw" THEN "we_bar" ELSE "cs",
                      "s_en", "vdd", "gnd">>)>>)

create_pen_row ==
    AddInsts("create_pen_row",
             <<Inst("buf_p_en_bar", "p_en_bar_driver", <<"glitch1", "p_en_bar", "vdd", "gnd">>)>>)

Synthesize ==
    \/ setup_signal_busses \/ add_pins \/ add_modules
    \/ create_dffs \/ create_clk_buf_row \/ create_gated_clk_bar_row
    \/ create_gated_clk_buf_row \/ create_delay \/ create_glitches
    \/ create_wlen_row \/ create_wen_row \/ create_sen_row \/ create_pen_row


\* ------------------------------------------------------- catalog geometry
\* width of a child module (one width per cell type of the catalog)
ModWidth(m) ==
    CASE m \in {"clk_buf_driver", "wl_en_driver", "p_en_bar_driver"} -> tech.w_drv
      [] m \in {"inv", "nand2"}                                      -> tech.w_gate
      [] m \in {"and2", "wl_en_and", "wen_and", "sen_and3"}          -> tech.w_and
      [] m = "ctrl_dff_array"                                        -> tech.w_dff
      [] OTHER                                                       -> tech.w_delay

\* every gate is created with height = dff_height; the flop array stacks
\* num_control_signals flops in one column
ModHeight(m) ==
    CASE m = "ctrl_dff_array"    -> num_control_signals * tech.h
      [] m = "multi_delay_chain" -> tech.dh
      [] OTHER                   -> tech.h

InstNames == { insts[k].name : k \in 1..Len(insts) }

ModOf(i) == LET k == CHOOSE k \in 1..Len(insts) : insts[k].name = i IN insts[k].mod

InstWidth(i)  == ModWidth(ModOf(i))
InstHeight(i) == ModHeight(ModOf(i))

\* bounding box of a placed instance (mirror MX flips it below its offset)
Lx(p, i) == p[i].x
Rx(p, i) == p[i].x + InstWidth(i)
By(p, i) == IF p[i].mirror = "MX" THEN p[i].y - InstHeight(i) ELSE p[i].y
Uy(p, i) == IF p[i].mirror = "MX" THEN p[i].y ELSE p[i].y + InstHeight(i)

\* pin list of a child module, in the order connect_inst binds it
ModPins(m) ==
    CASE m = "ctrl_dff_array" ->
             IF num_control_signals = 2
             THEN <<"din_0", "din_1", "dout_0", "dout_bar_0", "dout_1", "dout_bar_1",
                    "clk", "vdd", "gnd">>
             ELSE <<"din_0", "dout_0", "dout_bar_0", "clk", "vdd", "gnd">>
      [] m \in {"and2", "wl_en_and", "nand2"} -> <<"A", "B", "Z", "vdd", "gnd">>
      [] m \in {"wen_and", "sen_and3"}        -> <<"A", "B", "C", "Z", "vdd", "gnd">>
      [] m = "multi_delay_chain" ->
             <<"in", "delay1", "delay2", "delay3", "delay4", "delay5", "vdd", "gnd">>
      [] OTHER -> <<"A", "Z", "vdd", "gnd">>

\* net the connection list of instance i binds its pin to
NetOf(i, pin) ==
    LET k == CHOOSE k \in 1..Len(insts) : insts[k].name = i
        n == CHOOSE n \in 1..Len(ModPins(insts[k].mod)) : ModPins(insts[k].mod)[n] = pin
    IN  insts[k].conns[n]

\* ---------------------------------------------------------------- placement
\* get_offset mirroring the odd rows without moving them up by their height
get_offset_no_compensation(row) ==
    LET y_off == row * ModHeight("and2")
    IN  IF row % 2 # 0 THEN <<y_off, "MX">> ELSE <<y_off, "R0">>

\* get_offset giving every row the orientation of an even row
get_offset_never_mirrored(row) == <<row * ModHeight("and2"), "R0">>

\* get_offset(row): y-offset and mirroring of a row
get_offset(row) ==
    LET y_off == row * ModHeight("and2")
    IN  IF row % 2 # 0 THEN <<y_off + ModHeight("and2"), "MX">> ELSE <<y_off, "R0">>

\* inst.place(offset, mirror) on the placement map p
Place(p, i, x, y, mirror, row) ==
    [j \in DOMAIN p \cup {i} |->
        IF j = i THEN [x |-> x, y |-> y, mirror |-> mirror, row |-> row,
                       times |-> IF i \in DOMAIN p THEN p[i].times + 1 ELSE 1]
        ELSE p[j]]

\* place_util returning the x-offset it was given
place_util_no_advance(p, i, x_offset, row) ==
    LET o == get_offset(row)
    IN  [pos |-> Place(p, i, x_offset, o[1], o[2], row), x |-> x_offset]

\* place_util(inst, x_offset, row): places inst, returns the next x-offset
place_util(p, i, x_offset, row) ==
    LET o == get_offset(row)
    IN  [pos |-> Place(p, i, x_offset, o[1], o[2], row), x |-> x_offset + InstWidth(i)]

\* a step of the placement phase: `made` are the instances it needs created,
\* `fields` the attributes and `placed` the instance positions it reads
PlaceStep(o, made, fields, placed, newpos, newrows, newgeom) ==
    /\ At(o)
    /\ IF ~(made \subseteq InstNames) \/ ~(fields \subseteq geom.set)
       THEN Raise("AttributeError") /\ UNCHANGED placeVars
       ELSE IF ~(placed \subseteq DOMAIN pos)
       THEN Raise("unplaced_read") /\ UNCHANGED placeVars
       ELSE /\ pos' = newpos /\ row_end_inst' = newrows /\ geom' = newgeom
            /\ Advance
    /\ UNCHANGED <<cfgVars, busVars, netVars, routeVars, endVars, runVars, szVars>>

\* a place_*_row method: place_util on each instance of `names` from
\* control_x_offset on, then the last one is appended to row_end_inst
PlaceRow(o, names) ==
    LET row == Head(pc).row
        one == place_util(pos, names[1], geom.control_x_offset, row)
        two == IF Len(names) > 1 THEN place_util(one.pos, names[2], one.x, row) ELSE one
    IN  PlaceStep(o, SeqToSet(names), {"row_end_inst", "control_x_offset"}, {},
                  two.pos, Append(row_end_inst, names[Len(names)]), geom)

place_instances_begin ==
    PlaceStep("place_instances_begin", {}, {}, {},
              pos, <<>>, [geom EXCEPT !.set = @ \cup {"row_end_inst"}])

place_dffs ==
    PlaceStep("place_dffs", {"ctrl_dffs"}, {}, {},
              Place(pos, "ctrl_dffs", 0, 0, "R0", -1), row_end_inst, geom)

place_instances_x_offset ==
    PlaceStep("place_instances_x_offset", {}, {}, {},
              pos, row_end_inst,
              [geom EXCEPT !.set = @ \cup {"control_x_offset"},
                           !.control_x_offset = ModWidth("ctrl_dff_array") + internal_bus_width])

place_clk_buf_row == PlaceRow("place_clk_buf_row", <<"clkbuf">>)

place_gated_clk_bar_row ==
    PlaceRow("place_gated_clk_bar_row", <<"inv_clk_bar", "and2_gated_clk_bar">>)

place_gated_clk_buf_row == PlaceRow("place_gated_clk_buf_row", <<"and2_gated_clk_buf">>)

place_sen_row == PlaceRow("place_sen_row", <<"and_s_en">>)

place_wen_row == PlaceRow("place_wen_row", <<"inv_glitch3_bar", "and_w_en">>)

\* place_pen_row placing the driver only
place_pen_row_without_glitch1 == PlaceRow("place_pen_row", <<"buf_p_en_bar">>)

place_pen_row == PlaceRow("place_pen_row", <<"nand2_glitch1", "buf_p_en_bar">>)

place_wlen_row == PlaceRow("place_wlen_row", <<"and_wl_en_unbuf", "buf_wl_en">>)

place_glitch2_row == PlaceRow("place_glitch2_row", <<"nand2_glitch2">>)

place_glitch3_row == PlaceRow("place_glitch3_row", <<"nand2_glitch3">>)

\* control_center_y = glitch3_nand_inst.uy() + m3_pitch
place_instances_center ==
    PlaceStep("place_instances_center", {"nand2_glitch3"}, {}, {"nand2_glitch3"},
              pos, row_end_inst,
              [geom EXCEPT !.set = @ \cup {"control_center_y"},
                           !.center_y = Uy(pos, "nand2_glitch3") + m3_pitch])

place_delay ==
    /\ At("place_delay")
    /\ IF Head(pc).row % 2 # 0
       THEN \* debug.check fails
            /\ Raise("check_failed")
            /\ UNCHANGED <<cfgVars, busVars, netVars, placeVars, routeVars, endVars,
                           runVars, szVars>>
       ELSE PlaceStep("place_delay", {"multi_delay_chain"}, {}, {},
                      Place(pos, "multi_delay_chain", 0,
                            Head(pc).row * ModHeight("and2") + ModHeight("multi_delay_chain"),
                            "MX", -1),
                      row_end_inst, geom)

\* height, control_logic_center and width, set at the end of place_instances
place_instances_size ==
    LET height == Uy(pos, "multi_delay_chain")
        rows_w == MaxOf({ Rx(pos, row_end_inst[k]) : k \in 1..Len(row_end_inst) })
        width  == IF cfg.port_type = "rw" \/ cfg.port_type = "r"
                  THEN Max(Rx(pos, "multi_delay_chain"), rows_w)
                  ELSE rows_w
    IN  PlaceStep("place_instances_size", {"multi_delay_chain", "ctrl_dffs"},
                  {"row_end_inst", "control_center_y"},
                  {"multi_delay_chain", "ctrl_dffs"} \cup SeqToSet(row_end_inst),
                  pos, row_end_inst,
                  [geom EXCEPT !.set = @ \cup {"control_logic_center", "height", "width"},
                               !.center_x = Rx(pos, "ctrl_dffs"),
                               !.height = height + 2 * m1_pitch,
                               !.width = width + m2_pitch])

PlaceControl ==
    \/ place_instances_begin \/ place_dffs \/ place_instances_x_offset
    \/ place_clk_buf_row \/ place_gated_clk_bar_row \/ place_gated_clk_buf_row
    \/ place_sen_row \/ place_wen_row \/ place_pen_row \/ place_wlen_row
    \/ place_glitch2_row \/ place_glitch3_row
    \/ place_instances_center \/ place_delay \/ place_instances_size


\* ------------------------------------------------------------------ routing
\* pin centre of a placed instance: outputs (Z) sit on the right edge of a
\* cell, every other pin on its left edge
PinCx(p, i, pin) == IF pin = "Z" THEN Rx(p, i) ELSE Lx(p, i)

\* a step of the routing phase: `made` are the instances it needs created,
\* `fields` the attributes, `placed` the instance positions and `nets` the bus
\* tracks it reads
RouteStep(o, made, fields, placed, nets, newbus, newattached, newwires, newpins) ==
    /\ At(o)
    /\ IF ~(made \subseteq InstNames) \/ ~(fields \subseteq geom.set)
       THEN Raise("AttributeError") /\ UNCHANGED <<routeVars, geom>>
       ELSE IF ~(placed \subseteq DOMAIN pos)
       THEN Raise("unplaced_read") /\ UNCHANGED <<routeVars, geom>>
       ELSE IF ~(nets \subseteq SeqToSet(input_bus))
       THEN Raise("KeyError") /\ UNCHANGED <<routeVars, geom>>
       ELSE /\ input_bus' = newbus
            /\ geom' = IF newbus # input_bus
                       THEN \* the bus starts at vector(ctrl_dff_array.width, 0)
                            [geom EXCEPT !.set = @ \cup {"input_bus"},
                                         !.bus_x = ModWidth("ctrl_dff_array")]
                       ELSE geom
            /\ attached' = newattached
            /\ wires' = newwires
            /\ layout_pins' = newpins
            /\ Advance
    /\ UNCHANGED <<cfgVars, busVars, netVars, pos, row_end_inst, endVars, runVars, szVars>>

\* connect_vertical_bus(mapping, inst, bus): every (pin, net) of the mapping
connect_vertical_bus(i, mapping) == { <<i, m[1], m[2]>> : m \in mapping }

\* connect_output(inst, pin_name, out_name): layout pin from the pin to the right
connect_output(i, pin_name, out_name) ==
    LET out_x == PinCx(pos, i, pin_name)
    IN  [name |-> out_name, inst |-> i, pin |-> pin_name,
         x_end |-> out_x + (geom.width - out_x)]

\* copy_layout_pin(inst, pin_name, new_name)
copy_layout_pin(i, pin_name, new_name) ==
    [name |-> new_name, inst |-> i, pin |-> pin_name, x_end |-> PinCx(pos, i, pin_name)]

route_rails ==
    RouteStep("route_rails", {}, {"control_logic_center"}, {}, {},
              internal_bus_list, attached, wires, layout_pins)

route_dffs ==
    LET dff_out_map == IF cfg.port_type = "rw"
                       THEN {<<"dout_bar_0", "cs">>, <<"dout_bar_1", "we">>,
                             <<"dout_1", "we_bar">>}
                       ELSE {<<"dout_bar_0", "cs">>}
    IN  RouteStep("route_dffs", {"ctrl_dffs", "and2_gated_clk_buf"}, {"input_bus"},
                  {"ctrl_dffs", "and2_gated_clk_buf"},
                  { m[2] : m \in dff_out_map } \cup {"clk_buf"},
                  input_bus,
                  attached \cup connect_vertical_bus("ctrl_dffs", dff_out_map)
                           \cup {<<"ctrl_dffs", "clk", "clk_buf">>},
                  wires,
                  layout_pins \cup {copy_layout_pin("ctrl_dffs", "din_0", "csb")}
                              \cup (IF cfg.port_type = "rw"
                                    THEN {copy_layout_pin("ctrl_dffs", "din_1", "web")}
                                    ELSE {}))

route_wlen ==
    RouteStep("route_wlen", {"and_wl_en_unbuf", "buf_p_en_bar", "buf_wl_en"},
              {"input_bus", "width"},
              {"and_wl_en_unbuf", "buf_p_en_bar", "buf_wl_en"},
              {"cs", "glitch2"},
              input_bus,
              attached \cup connect_vertical_bus("and_wl_en_unbuf",
                                                 {<<"A", "cs">>, <<"B", "glitch2">>}),
              wires \cup {<<"and_wl_en_unbuf", "Z", "buf_p_en_bar", "A">>},
              layout_pins \cup {connect_output("buf_wl_en", "Z", "wl_en")})

route_wen ==
    LET input_name == IF cfg.port_type = "rw" THEN "we" ELSE "cs"
    IN  RouteStep("route_wen", {"and_w_en", "inv_glitch3_bar"}, {"input_bus", "width"},
                  {"and_w_en", "inv_glitch3_bar"},
                  {input_name, "glitch2"},
                  input_bus,
                  attached \cup connect_vertical_bus("and_w_en",
                                                     {<<"A", input_name>>, <<"B", "glitch2">>}),
                  wires \cup {<<"inv_glitch3_bar", "Z", "and_w_en", "C">>},
                  layout_pins \cup {connect_output("and_w_en", "Z", "w_en")})

route_sen ==
    LET input_name == IF cfg.port_type = "rw" THEN "we_bar" ELSE "cs"
    IN  RouteStep("route_sen", {"and_s_en"}, {"input_bus", "width"}, {"and_s_en"},
                  {"glitch3", "gated_clk_bar", input_name},
                  input_bus,
                  attached \cup connect_vertical_bus("and_s_en",
                                  {<<"A", "glitch3">>, <<"B", "gated_clk_bar">>,
                                   <<"C", input_name>>}),
                  wires,
                  layout_pins \cup {connect_output("and_s_en", "Z", "s_en")})

\* the name slef is bound nowhere: looking it up raises NameError before
\* anything is connected
route_delay ==
    /\ At("route_delay")
    /\ Raise("NameError")
    /\ UNCHANGED <<cfgVars, buildVars, runVars, szVars>>

RouteControl ==
    \/ route_rails \/ route_dffs \/ route_wlen \/ route_wen \/ route_sen \/ route_delay


\* ---------------------------------------------------------------- ROM bank
\* ceil(log(n, 2)) for n >= 1
RECURSIVE CeilLog2(_)
CeilLog2(n) == IF n <= 1 THEN 0 ELSE 1 + CeilLog2((n + 1) \div 2)

rows     == cfg.dims.num_rows
cols     == cfg.dims.word_size * cfg.dims.words_per_row
row_bits == CeilLog2(rows)
col_bits == CeilLog2(cfg.dims.words_per_row)

\* "<stem>_<i>" for i in range(n)
Names(stem, n)      == [i \in 1..n |-> stem \o ToString(i - 1)]
\* names numbered from zero whatever the first index asked for
NamesFromZero(stem, n, first) == [i \in 1..n |-> stem \o ToString(i - 1)]

NamesFrom(stem, n, first) == [i \in 1..n |-> stem \o ToString(first + i - 1)]

\* pin list of a child module of the ROM bank, in the order connect_inst
\* binds it; the modules are created with the counts given to factory.create
RomModPins(m) ==
    CASE m = "array" ->
             Names("bl_0_", cols) \o Names("wl_0_", rows) \o <<"precharge", "vdd", "gnd">>
      [] m = "decode_array" ->
             Names("A", CeilLog2(rows)) \o Names("wl_", rows)
                 \o <<"precharge", "clk", "vdd", "gnd">>
      [] m = "column_decode" ->
             Names("A", CeilLog2(cfg.dims.words_per_row))
                 \o Names("wl_", cfg.dims.words_per_row)
                 \o <<"precharge", "clk", "vdd", "gnd">>
      [] m = "column_mux" ->
             Names("bl_", cols) \o Names("sel_", cfg.dims.words_per_row)
                 \o Names("bl_out_", cfg.dims.word_size) \o <<"gnd">>
      [] m = "bitline_inv" ->
             Names("in_", cols) \o Names("out_", cols) \o <<"vdd", "gnd">>
      [] m = "output_inv" ->
             Names("in_", cfg.dims.word_size) \o Names("out_", cfg.dims.word_size)
                 \o <<"vdd", "gnd">>
      [] OTHER -> <<"clk_in", "CS", "prechrg", "clk_out", "vdd", "gnd">>

RomStep(o, ok, err, newpins, newmods, newinsts) ==
    /\ At(o)
    /\ IF ok
       THEN pins' = newpins /\ mods' = newmods /\ insts' = newinsts /\ Advance
       ELSE Raise(err) /\ UNCHANGED <<pins, mods, insts>>
    /\ UNCHANGED <<cfgVars, busVars, sizing, placeVars, routeVars, endVars, runVars, szVars>>

\* rom_base_bank.__init__: log() of the row and word counts
rom_init ==
    RomStep("rom_init", rows > 0 /\ cfg.dims.words_per_row > 0, "ValueError",
            pins, mods, insts)

rom_add_modules ==
    RomStep("rom_add_modules", TRUE, "none", pins,
            {"array", "decode_array", "column_mux", "column_decode", "control_logic",
             "bitline_inv", "output_inv"},
            insts)

rom_add_pins ==
    RomStep("rom_add_pins", TRUE, "none",
            pins \o <<<<"clk", "INPUT">>, <<"CS", "INPUT">>>>
                 \o PinList(Names("addr_", row_bits + col_bits), "INPUT")
                 \o PinList(Names("rom_out_", cfg.dims.word_size), "OUTPUT")
                 \o <<<<"vdd", "POWER">>, <<"gnd", "GROUND">>>>,
            mods, insts)

rom_create_instances ==
    LET gnd      == <<"gnd">>
        vdd      == <<"vdd">>
        prechrg  == <<"precharge">>
        clk      == <<"clk_int">>
        bitlines == Names("bl_", cols)
        wordlines == Names("wl_", rows)
        addr_msb == NamesFrom("addr_", row_bits, col_bits)
        addr_lsb == Names("addr_", col_bits)
        select_lines == Names("word_sel_", cfg.dims.words_per_row)
        bitline_bar  == Names("bl_b_", cols)
        pre_buf_outputs == Names("rom_out_prebuf_", cfg.dims.word_size)
        outputs  == Names("rom_out_", cfg.dims.word_size)
    IN  RomStep("rom_create_instances",
                {"array", "decode_array", "column_mux", "column_decode", "control_logic",
                 "bitline_inv", "output_inv"} \subseteq mods,
                "AttributeError", pins, mods,
                insts \o
                <<Inst("rom_bit_array", "array", bitlines \o wordlines \o prechrg \o vdd \o gnd),
                  Inst("rom_row_decoder", "decode_array",
                       addr_msb \o wordlines \o clk \o clk \o vdd \o gnd),
                  Inst("rom_control", "control_logic",
                       <<"clk", "CS", "precharge", "clk_int", "vdd", "gnd">>),
                  Inst("rom_column_mux", "column_mux",
                       bitline_bar \o select_lines \o pre_buf_outputs \o gnd),
                  Inst("rom_column_decoder", "column_decode",
                       addr_lsb \o select_lines \o prechrg \o prechrg \o vdd \o gnd),
                  Inst("rom_bitline_inverter", "bitline_inv",
                       bitlines \o bitline_bar \o vdd \o gnd),
                  Inst("rom_output_inverter", "output_inv",
                       pre_buf_outputs \o outputs \o vdd \o gnd)>>)

setup_layout_constants ==
    PlaceStep("setup_layout_constants", {}, {}, {}, pos, row_end_inst,
              [geom EXCEPT !.set = @ \cup {"route_layer_width", "route_layer_pitch"}])

\* offset of a ROM instance; an unplaced instance sits at the origin, and pin
\* centres are taken at the origin of their instance
OffX(i) == IF i \in DOMAIN pos THEN pos[i].x ELSE 0
OffY(i) == IF i \in DOMAIN pos THEN pos[i].y ELSE 0

\* geom after step o has read a pin location of instance i
ReadPinOf(o, i) ==
    IF i \in DOMAIN pos THEN geom
    ELSE [geom EXCEPT !.origin_reads = @ \cup {<<o, i>>}]

place_row_decoder ==
    PlaceStep("place_row_decoder", {"rom_control", "rom_row_decoder"}, {}, {},
              Place(pos, "rom_row_decoder", 0, ModHeight("control_logic"), "R0", -1),
              row_end_inst, geom)

place_data_array ==
    LET array_x == ModWidth("decode_array") + 2 * (route_layer_width + route_layer_pitch)
        array_y == 0
        array_align == OffY("rom_row_decoder") - array_y
    IN  PlaceStep("place_data_array", {"rom_row_decoder", "rom_bit_array"},
                  {"route_layer_width", "route_layer_pitch"}, {"rom_row_decoder"},
                  Place(Place(pos, "rom_bit_array", array_x, array_y, "R0", -1),
                        "rom_bit_array", array_x, array_y + array_align, "R0", -1),
                  row_end_inst, geom)

place_bitline_inverter ==
    PlaceStep("place_bitline_inverter", {"rom_bit_array", "rom_bitline_inverter"}, {},
              {"rom_bit_array"},
              Place(Place(pos, "rom_bitline_inverter", 0, 0, "R90", -1),
                    "rom_bitline_inverter",
                    OffX("rom_bit_array") - 0,
                    OffY("rom_bit_array") - ModWidth("bitline_inv") - 2 * m1_pitch,
                    "R90", -1),
              row_end_inst, geom)

place_col_mux ==
    PlaceStep("place_col_mux", {"rom_bitline_inverter", "rom_column_mux"},
              {"route_layer_pitch"}, {"rom_bitline_inverter"},
              Place(pos, "rom_column_mux",
                    OffX("rom_bitline_inverter") - OffX("rom_column_mux"),
                    OffY("rom_bitline_inverter") - ModHeight("column_mux")
                        - 5 * route_layer_pitch,
                    "R0", -1),
              row_end_inst, ReadPinOf("place_col_mux", "rom_column_mux"))

place_col_decoder ==
    PlaceStep("place_col_decoder", {"rom_column_mux", "rom_column_decoder", "rom_row_decoder"},
              {}, {"rom_column_mux"},
              Place(pos, "rom_column_decoder",
                    ModWidth("decode_array") - ModWidth("column_decode"),
                    OffY("rom_column_mux") - OffY("rom_column_decoder"),
                    "R0", -1),
              row_end_inst, ReadPinOf("place_col_decoder", "rom_column_decoder"))

place_control_logic ==
    PlaceStep("place_control_logic",
              {"rom_column_decoder", "rom_control", "rom_row_decoder"}, {},
              {"rom_column_decoder", "rom_row_decoder"},
              Place(pos, "rom_control",
                    OffX("rom_column_decoder") - ModWidth("control_logic") - 3 * m1_pitch,
                    OffY("rom_row_decoder") - ModHeight("control_logic") - m1_pitch,
                    "R0", -1),
              row_end_inst, geom)

place_output_buffer ==
    PlaceStep("place_output_buffer",
              {"rom_column_decoder", "rom_output_inverter", "rom_column_mux"}, {},
              {"rom_column_decoder", "rom_column_mux"},
              Place(pos, "rom_output_inverter",
                    OffX("rom_column_decoder") + ModWidth("column_decode")
                        + ModHeight("output_inv"),
                    OffY("rom_column_mux") - cfg.dims.word_size * m1_pitch,
                    "R270", -1),
              row_end_inst, geom)

\* a routing step of the ROM bank: wires between the pin groups of `links`
\* <<inst, pins, inst, pins>> and the layout pins `newpins`
RomRoute(o, reads, links, newpins) ==
    RouteStep(o, reads, {}, reads, {}, input_bus, attached, wires \cup links,
              layout_pins \cup newpins)

route_decode_outputs ==
    RomRoute("route_decode_outputs",
             {"rom_bit_array", "rom_row_decoder", "rom_column_decoder", "rom_column_mux"},
             {<<"rom_bit_array", "wl_0_", "rom_row_decoder", "wl_">>,
              <<"rom_column_mux", "sel_", "rom_column_decoder", "wl_">>},
             {})

route_precharge ==
    RomRoute("route_precharge", {"rom_control", "rom_column_decoder", "rom_bit_array"},
             {<<"rom_control", "prechrg", "rom_column_decoder", "precharge_r">>,
              <<"rom_control", "prechrg", "rom_column_decoder", "clk">>,
              <<"rom_bit_array", "precharge", "rom_column_decoder", "precharge_r">>},
             {})

route_clock ==
    RomRoute("route_clock", {"rom_control", "rom_row_decoder"},
             {<<"rom_control", "clk_out", "rom_row_decoder", "precharge">>,
              <<"rom_control", "clk_out", "rom_row_decoder", "clk">>},
             {})

route_array_outputs ==
    RomRoute("route_array_outputs",
             {"rom_bit_array", "rom_bitline_inverter", "rom_column_mux"},
             {<<"rom_bit_array", "bl_0_", "rom_bitline_inverter", "in_">>,
              <<"rom_bitline_inverter", "out_", "rom_column_mux", "bl_">>},
             {})

place_top_level_pins ==
    RomRoute("place_top_level_pins",
             {"rom_control", "rom_output_inverter", "rom_column_decoder", "rom_row_decoder"},
             {},
             {copy_layout_pin("rom_control", "CS", "CS"),
              copy_layout_pin("rom_control", "clk_in", "clk")}
             \cup { copy_layout_pin("rom_output_inverter", "out_" \o ToString(i),
                                    "rom_out_" \o ToString(i)) :
                      i \in 0..(cfg.dims.word_size - 1) }
             \cup { copy_layout_pin("rom_column_decoder", "A" \o ToString(lsb),
                                    "addr_" \o ToString(lsb)) :
                      lsb \in 0..(col_bits - 1) }
             \cup { copy_layout_pin("rom_row_decoder", "A" \o ToString(msb - col_bits),
                                    "addr_" \o ToString(msb)) :
                      msb \in col_bits..(row_bits + col_bits - 1) })

route_supplies ==
    RomRoute("route_supplies", InstNames, {},
             { copy_layout_pin(i, "vdd", "vdd") : i \in InstNames }
             \cup { copy_layout_pin(i, "gnd", "gnd") : i \in InstNames })

route_output_buffers ==
    RomRoute("route_output_buffers", {"rom_column_mux", "rom_output_inverter"},
             {<<"rom_column_mux", "bl_out_", "rom_output_inverter", "in_">>},
             {})

\* self.height / self.width = those of the array instance
rom_set_size ==
    PlaceStep("rom_set_size", {"rom_bit_array"}, {}, {},
              pos, row_end_inst,
              [geom EXCEPT !.set = @ \cup {"height", "width"},
                           !.height = ModHeight("array"),
                           !.width = ModWidth("array")])

BuildRom ==
    \/ rom_init \/ rom_add_modules \/ rom_add_pins \/ rom_create_instances
    \/ setup_layout_constants
    \/ place_row_decoder \/ place_data_array \/ place_bitline_inverter
    \/ place_col_mux \/ place_col_decoder \/ place_control_logic \/ place_output_buffer
    \/ route_decode_outputs \/ route_precharge \/ route_clock \/ route_array_outputs
    \/ place_top_level_pins \/ route_supplies \/ route_output_buffers
    \/ rom_set_size

\* ------------------------------------------------- boundary and verification
add_boundary ==
    /\ At("add_boundary")
    /\ IF {"width", "height"} \subseteq geom.set
       THEN boundary' = TRUE /\ Advance
       ELSE boundary' = boundary /\ Raise("TypeError")
    /\ UNCHANGED <<cfgVars, busVars, netVars, placeVars, routeVars, verified, runVars, szVars>>

DRC_LVS ==
    /\ At("DRC_LVS")
    /\ verified' = TRUE
    /\ Advance
    /\ UNCHANGED <<cfgVars, busVars, netVars, placeVars, routeVars, boundary, runVars, szVars>>

Finish == add_boundary \/ DRC_LVS


Next == Synthesize \/ PlaceControl \/ RouteControl \/ BuildRom \/ Finish

Spec == Init /\ [][Next]_vars

\* ------------------------------------------- a second build, same arguments
\* the build has ended; its netlist is kept and a new object is constructed
\* from the same arguments
Rerun ==
    /\ status # "running"
    /\ run = 1
    /\ UNCHANGED <<cfgVars, szVars>>
    /\ run' = run + 1
    /\ prev' = [pins |-> pins, insts |-> insts]
    /\ UNCHANGED sharedVars
    /\ pc' = Program /\ status' = "running"
    /\ input_list' = <<>> /\ dff_output_list' = <<>>
    /\ internal_bus_list' = <<>> /\ output_list' = <<>>
    /\ pins' = <<>> /\ mods' = {} /\ sizing' = NoSizing /\ insts' = <<>>
    /\ pos' = NoPos /\ row_end_inst' = <<>> /\ geom' = NoGeom
    /\ input_bus' = <<>> /\ attached' = {} /\ wires' = {} /\ layout_pins' = {}
    /\ boundary' = FALSE /\ verified' = FALSE

NextTwice == Next \/ Rerun

SpecTwice == Init /\ [][NextTwice]_vars

\* ---------------------------------------------------- sizing (pure functions)
wl_timing_tolerance == 1
delay_fanout == 3

\* ceil(a / b) for a > 0, b > 0
CeilDiv(a, b) == (a + b - 1) \div b

\* required_delay of get_dynamic_delay_chain_size
required_delay(c) ==
    LET previous_delay_chain_delay ==
            (c.previous_fanout + 1 + c.pinv) * c.previous_stages
    IN  c.wl_delay * wl_timing_tolerance - (c.sen_delay - previous_delay_chain_delay)

\* delay_stages of get_dynamic_delay_chain_size before its parity is forced
required_stages(c) == CeilDiv(required_delay(c), delay_fanout + 1 + c.pinv)

\* the same without the parity adjustment
chain_size_as_computed(c) ==
    IF required_delay(c) > 0
    THEN [state |-> "returned", stages |-> required_stages(c), fanout |-> delay_fanout]
    ELSE [state |-> "check_failed", stages |-> 0, fanout |-> 0]

get_dynamic_delay_chain_size(c) ==
    IF required_delay(c) > 0
    THEN LET delay_stages == required_stages(c)
         IN  [state |-> "returned",
              stages |-> IF delay_stages % 2 = 1 THEN delay_stages + 1 ELSE delay_stages,
              fanout |-> delay_fanout]
    ELSE [state |-> "check_failed", stages |-> 0, fanout |-> 0]

SizingCalls ==
    [f : {"get_dynamic_delay_chain_size"},
     wl_delay : 0..MaxDelay, sen_delay : 0..MaxDelay,
     previous_stages : 1..MaxPrev, previous_fanout : 1..MaxPrev, pinv : 0..MaxPinv]

SizingCfg ==
    [kind |-> "control_logic_delay", port_type |-> "rw",
     dims |-> [num_rows |-> 4, words_per_row |-> 1, word_size |-> 9, spare_columns |-> 0],
     netlist_only |-> TRUE, delay_chain_stages |-> 3, is_unit_test |-> FALSE]

InitSizing ==
    /\ cfg = SizingCfg /\ tech = UnitTech
    /\ Fresh
    /\ run = 1 /\ prev = NoNetlist /\ NoRunners
    /\ sz_in \in SizingCalls /\ sz_out = NoSizingResult

CallChainSize ==
    /\ sz_in.f = "get_dynamic_delay_chain_size"
    /\ sz_out.state = "none"
    /\ sz_out' = get_dynamic_delay_chain_size(sz_in)
    /\ UNCHANGED <<cfgVars, ctlVars, buildVars, runVars, sz_in>>

NextSizing == CallChainSize

SpecSizing == InitSizing /\ [][NextSizing]_vars

\* ceil(required_delay / delay_per_stage) with no lower limit on the delay;
\* required_delay counts half units
stages_without_minimum(req_delay, fanout, pinv) ==
    CeilDiv(req_delay, 2 * (fanout + 1 + pinv))

\* calculate_stages_with_fixed_fanout(required_delay, fanout). Its callers
\* compute required_delay with a division by two, so required_delay counts
\* half units here: 2 * (3 + pinv) is the code's 3 + inv_parasitic_delay
calculate_stages_with_fixed_fanout(req_delay, fanout, pinv) ==
    IF req_delay <= 2 * (3 + pinv)
    THEN 1
    ELSE CeilDiv(req_delay, 2 * (fanout + 1 + pinv))

StagesCalls ==
    [f : {"calculate_stages_with_fixed_fanout"},
     required_delay : (0 - 2 * MaxDelay)..(2 * MaxDelay),
     fanout : 2..MaxFanout, pinv : 0..MaxPinv]

InitStages ==
    /\ cfg = SizingCfg /\ tech = UnitTech
    /\ Fresh
    /\ run = 1 /\ prev = NoNetlist /\ NoRunners
    /\ sz_in \in SizingCalls \cup StagesCalls /\ sz_out = NoSizingResult

CallStages ==
    /\ sz_in.f = "calculate_stages_with_fixed_fanout"
    /\ sz_out.state = "none"
    /\ sz_out' = [state |-> "returned",
                  stages |-> calculate_stages_with_fixed_fanout(
                                 sz_in.required_delay, sz_in.fanout, sz_in.pinv),
                  fanout |-> sz_in.fanout]
    /\ UNCHANGED <<cfgVars, ctlVars, buildVars, runVars, sz_in>>

NextStages == CallChainSize \/ CallStages

SpecStages == InitStages /\ [][NextStages]_vars

\* --------------------------------- sizing: get_dynamic_delay_fanout_list
WARNING_FANOUT_DIFF == 5

\* no fanout of the loop comes near this value within the delays of FanoutCalls
FanoutCap == 4 * MaxDelay + (MaxPrev + 1 + MaxPinv) * MaxPrev + 4

Abs(n) == IF n < 0 THEN 0 - n ELSE n

FanoutCalls ==
    [f : {"get_dynamic_delay_fanout_list"},
     wl_delay_fall : 0..(2 * MaxDelay), wl_delay_rise : 0..(2 * MaxDelay),
     sen_delay_fall : {0, MaxPrev}, sen_delay_rise : {0, MaxPrev},
     previous_stages : 1..MaxPrev, previous_fanout : 1..MaxPrev, pinv : 0..MaxPinv]

InitFanout ==
    /\ cfg = SizingCfg /\ tech = UnitTech
    /\ Fresh
    /\ run = 1 /\ prev = NoNetlist /\ NoRunners
    /\ sz_in \in FanoutCalls /\ sz_out = NoSizingResult

\* the statements before the loop; the required delays are kept in half
\* units (previous_delay_chain_delay / 2 is subtracted from them)
CallFanoutList ==
    /\ sz_in.f = "get_dynamic_delay_fanout_list"
    /\ sz_out.state = "none"
    /\ LET previous_delay_chain_delay ==
               (sz_in.previous_fanout + 1 + sz_in.pinv) * sz_in.previous_stages
       IN  sz_out' = [state |-> "looping",
                      required_delay_fall |->
                          2 * sz_in.wl_delay_fall * wl_timing_tolerance
                              - (2 * sz_in.sen_delay_fall - previous_delay_chain_delay),
                      required_delay_rise |->
                          2 * sz_in.wl_delay_rise * wl_timing_tolerance
                              - (2 * sz_in.sen_delay_rise - previous_delay_chain_delay),
                      fanout_fall |-> 2, fanout_rise |-> 2,
                      stages_fall |-> 0, stages_rise |-> 0,
                      stages_close |-> FALSE, safe_assigned |-> FALSE,
                      safe_fanout_fall |-> 0, safe_fanout_rise |-> 0,
                      stages |-> 0, exit |-> "none"]
    /\ UNCHANGED <<cfgVars, ctlVars, buildVars, runVars, sz_in>>

\* the last branches raising the fanout of the delay with the fewer stages
raise_fanout_of_fewer(l) ==
    IF l.stages_fall < l.stages_rise
    THEN [l EXCEPT !.fanout_fall = @ + 1]
    ELSE [l EXCEPT !.fanout_rise = @ + 1]

\* the last two branches of the loop: increase the fanout of the delay with
\* the most stages
raise_fanout(l) ==
    IF l.stages_fall > l.stages_rise
    THEN [l EXCEPT !.fanout_fall = @ + 1]
    ELSE [l EXCEPT !.fanout_rise = @ + 1]

\* one pass through the body of `while True`, and the statements after the
\* loop when the pass leaves it
LoopIteration ==
    /\ sz_out.state = "looping"
    /\ sz_out.fanout_fall < FanoutCap /\ sz_out.fanout_rise < FanoutCap
    /\ LET stages_fall == calculate_stages_with_fixed_fanout(
                               sz_out.required_delay_fall, sz_out.fanout_fall, sz_in.pinv)
           stages_rise == calculate_stages_with_fixed_fanout(
                               sz_out.required_delay_rise, sz_out.fanout_rise, sz_in.pinv)
           close  == Abs(stages_fall - stages_rise) = 1
           first  == close /\ ~sz_out.stages_close
           l == [sz_out EXCEPT
                    !.stages_fall = stages_fall, !.stages_rise = stages_rise,
                    !.stages_close = IF first THEN TRUE ELSE @,
                    !.safe_assigned = IF first THEN TRUE ELSE @,
                    !.safe_fanout_rise = IF first THEN sz_out.fanout_rise ELSE @,
                    !.safe_fanout_fall = IF first THEN sz_out.fanout_fall ELSE @]
           total_stages == Max(stages_fall, stages_rise) * 2
       IN  sz_out' =
             IF stages_fall = stages_rise
             THEN [l EXCEPT !.state = "returned", !.exit = "equal",
                            !.stages = total_stages]
             ELSE IF close /\ WARNING_FANOUT_DIFF < Abs(l.fanout_fall - l.fanout_rise)
             THEN IF l.safe_assigned
                  THEN [l EXCEPT !.state = "returned", !.exit = "safety",
                                 !.fanout_rise = l.safe_fanout_rise,
                                 !.fanout_fall = l.safe_fanout_fall,
                                 !.stages = total_stages]
                  ELSE \* safe_fanout_rise is read before any assignment
                       [l EXCEPT !.state = "UnboundLocalError"]
             ELSE raise_fanout(l)
    /\ UNCHANGED <<cfgVars, ctlVars, buildVars, runVars, sz_in>>

NextFanout == CallFanoutList \/ LoopIteration

\* the function runs on one thread: a statement that can run does run
SpecFanout == InitFanout /\ [][NextFanout]_vars /\ WF_vars(NextFanout)


\* ------------------------------------------- test runs sharing OPTS and factory
Call(do, what, value) == [do |-> do, what |-> what, value |-> value]

\* single_level_column_mux_test.runTest, statement by statement
single_level_column_mux_test ==
    <<Call("init_openram", "config_20", ""),
      Call("create", "single_level_column_mux", "tx_size=8"),
      Call("set", "bitcell", "pbitcell"),
      Call("set", "num_rw_ports", 1),
      Call("set", "num_r_ports", 1),
      Call("set", "num_w_ports", 1),
      Call("reset", "factory", ""),
      Call("create", "single_level_column_mux", "tx_size=8, bl0, br0"),
      Call("reset", "factory", ""),
      Call("create", "single_level_column_mux", "tx_size=8, bl2, br2"),
      Call("end_openram", "", "")>>

\* pinv_test.runTest
pinv_test ==
    <<Call("init_openram", "config_20", ""),
      Call("create", "pinv", "size=8"),
      Call("end_openram", "", "")>>

TestOf(name) == IF name = "pinv_test" THEN pinv_test ELSE single_level_column_mux_test

\* OPTS after a statement
OptsAfter(st, o) ==
    IF st.do = "init_openram" THEN DefaultOpts
    ELSE IF st.do = "set" THEN [o EXCEPT ![st.what] = st.value]
    ELSE o

\* the factory's modules after a statement
CatalogAfter(st, c) ==
    IF st.do = "create" THEN c \cup {<<st.what, st.value>>}
    ELSE IF st.do = "reset" THEN {}
    ELSE c

\* factory.create builds the module under the options in force at the call
Created(st, o) == [module_type |-> st.what, args |-> st.value, opts |-> o]

Runners == {1, 2}

InitShared ==
    /\ cfg = SizingCfg /\ tech = UnitTech
    /\ Fresh
    /\ run = 1 /\ prev = NoNetlist
    /\ sz_in = NoSizingCall /\ sz_out = NoSizingResult
    /\ opts = DefaultOpts /\ catalog = {}
    /\ \E t \in [Runners -> {"single_level_column_mux_test", "pinv_test"}] :
          tpc = [r \in Runners |-> [test |-> t[r], rest |-> TestOf(t[r])]]
    /\ handed = [r \in Runners |-> <<>>]

\* the next statement of test run r
RunStatement(r) ==
    /\ tpc[r].rest # <<>>
    /\ LET st == Head(tpc[r].rest)
       IN  /\ opts' = OptsAfter(st, opts)
           /\ catalog' = CatalogAfter(st, catalog)
           /\ handed' = IF st.do = "create"
                      THEN [handed EXCEPT ![r] = Append(@, Created(st, opts))]
                      ELSE handed
    /\ tpc' = [tpc EXCEPT ![r].rest = Tail(@)]
    /\ UNCHANGED <<cfgVars, ctlVars, buildVars, run, prev, szVars>>

NextShared == \E r \in Runners : RunStatement(r)

SpecShared == InitShared /\ [][NextShared]_vars

\* ===================================================================== claims
IsControl == cfg.kind = "control_logic_delay"

\* create_netlist has run to its end in this build
SynthesisDone == IsControl /\ Len(Program) - Len(pc) >= Len(create_netlist)

PinNames(dir) == SelectSeq(pins, LAMBDA q : q[2] = dir)

C2_ReadWritePins ==
    (SynthesisDone /\ cfg.port_type = "rw") =>
        /\ PinNames("INPUT") = <<<<"csb", "INPUT">>, <<"web", "INPUT">>, <<"clk", "INPUT">>>>
        /\ num_control_signals >= 2
        /\ \E k \in 1..Len(insts) :
              /\ insts[k].name = "ctrl_dffs" /\ insts[k].mod = "ctrl_dff_array"
              /\ SubSeq(insts[k].conns, 1, 2) = <<"csb", "web">>
        /\ {"s_en", "w_en", "p_en_bar", "wl_en", "clk_buf"}
              \subseteq { q[1] : q \in SeqToSet(PinNames("OUTPUT")) }

C2_Witness ==
    /\ SynthesisDone /\ cfg.port_type = "rw" /\ status = "done"
    /\ cfg.dims = [num_rows |-> 4, words_per_row |-> 1, word_size |-> 9, spare_columns |-> 0]

WriteNets  == {"web", "w_en", "we", "we_bar", "glitch3_bar"}
WriteInsts == {"inv_glitch3_bar", "and_w_en"}

\* C3: a read-only control module has no write-enable pin, net or instance, and
\* no placement or routing step places, connects or wires one
C3_ReadOnlyHasNoWritePath ==
    (IsControl /\ cfg.port_type = "r") =>
        /\ \A k \in 1..Len(pins) : pins[k][1] \notin WriteNets
        /\ SeqToSet(input_list) \cap WriteNets = {}
        /\ SeqToSet(output_list) \cap WriteNets = {}
        /\ SeqToSet(dff_output_list) \cap WriteNets = {}
        /\ SeqToSet(internal_bus_list) \cap WriteNets = {}
        /\ \A k \in 1..Len(insts) :
              /\ insts[k].name \notin WriteInsts
              /\ SeqToSet(insts[k].conns) \cap WriteNets = {}
        /\ DOMAIN pos \cap WriteInsts = {}
        /\ SeqToSet(row_end_inst) \cap WriteInsts = {}
        /\ \A a \in attached : a[1] \notin WriteInsts /\ a[3] \notin WriteNets
        /\ \A w \in wires : w[1] \notin WriteInsts /\ w[3] \notin WriteInsts
        /\ \A l \in layout_pins : l.name \notin WriteNets /\ l.inst \notin WriteInsts
        /\ \A k \in 1..Len(pc) : pc[k].op \notin {"create_wen_row", "place_wen_row", "route_wen"}

C3_Witness ==
    /\ IsControl /\ cfg.port_type = "r" /\ ~cfg.netlist_only
    /\ Len(row_end_inst) = 8
    /\ <<"and_s_en", "A", "glitch3">> \in attached

\* C4: a build with a port type that is none of rw, r and w never returns a
\* module (stated as the claim has it; the code returns one)
C4_UnknownPortTypeFails ==
    (IsControl /\ cfg.port_type \notin PortTypes) => status # "done"

\* the steps of each phase
SynthesisOps ==
    {"setup_signal_busses", "add_pins", "add_modules", "create_dffs",
     "create_clk_buf_row", "create_gated_clk_bar_row", "create_gated_clk_buf_row",
     "create_delay", "create_glitches", "create_wlen_row", "create_wen_row",
     "create_sen_row", "create_pen_row",
     "rom_init", "rom_add_modules", "rom_add_pins", "rom_create_instances"}

PlacementOps ==
    {"place_instances_begin", "place_dffs", "place_instances_x_offset",
     "place_clk_buf_row", "place_gated_clk_bar_row", "place_gated_clk_buf_row",
     "place_sen_row", "place_wen_row", "place_pen_row", "place_wlen_row",
     "place_glitch2_row", "place_glitch3_row", "place_instances_center",
     "place_delay", "place_instances_size",
     "setup_layout_constants", "place_row_decoder", "place_data_array",
     "place_bitline_inverter", "place_col_mux", "place_col_decoder",
     "place_control_logic", "place_output_buffer"}

VerificationOps == {"DRC_LVS"}

\* 1 synthesis, 2 placement, 3 routing and closing the layout, 4 verification
PhaseOf(o) ==
    IF o \in SynthesisOps THEN 1
    ELSE IF o \in PlacementOps THEN 2
    ELSE IF o \in VerificationOps THEN 4
    ELSE 3

\* C5: a netlist-only build of the control logic runs synthesis steps only and
\* sets no instance position, no width and no height
C5_NetlistOnlyStopsAfterSynthesis ==
    (IsControl /\ cfg.netlist_only) =>
        /\ LET h == hist IN \A k \in 1..Len(h) : h[k].op \in SynthesisOps
        /\ \A k \in 1..Len(pc) : pc[k].op \in SynthesisOps
        /\ DOMAIN pos = {} /\ row_end_inst = <<>>
        /\ geom.set = {}
        /\ input_bus = <<>> /\ attached = {} /\ wires = {} /\ layout_pins = {}
        /\ ~boundary /\ ~verified

C5_Witness ==
    /\ IsControl /\ cfg.netlist_only /\ status = "done" /\ pc = <<>>
    /\ Len(insts) >= 10 /\ DOMAIN pos = {}

\* C6: the executed steps are ordered synthesis, placement, routing,
\* verification; no step ever reads an attribute, an instance position or a bus
\* track that is not set yet; pins are attached to the bus only once it exists;
\* and nothing runs after verification
C6_PhasesInOrder ==
    LET h == hist
    IN  /\ \A i \in 1..(Len(h) - 1) : PhaseOf(h[i].op) <= PhaseOf(h[i + 1].op)
        /\ status \notin {"AttributeError", "unplaced_read", "KeyError", "TypeError"}
        /\ attached # {} => ("input_bus" \in geom.set /\ input_bus # <<>>)
        /\ (wires # {} \/ layout_pins # {}) =>
               \E k \in 1..Len(h) : PhaseOf(h[k].op) = 2
        /\ verified => (pc = <<>> /\ status = "done" /\ boundary)

C6_Witness ==
    /\ ~cfg.netlist_only /\ verified /\ status = "done"
    /\ LET h == hist
       IN  /\ \E k \in 1..Len(h) : PhaseOf(h[k].op) = 2
           /\ \E k \in 1..Len(h) : PhaseOf(h[k].op) = 3

\* the build has gone through route_all and out of it, by return or by exception
RouteAllOver ==
    /\ IsControl /\ ~cfg.netlist_only
    /\ "input_bus" \in geom.set
    /\ \/ status \notin {"running"}
       \/ pc # <<>> /\ Head(pc).op \in {"add_boundary", "DRC_LVS"}

PinsOn(net) == { a \in attached : a[3] = net }

\* C7: once route_all is over, every net of the internal bus list has at least
\* two pins attached (stated as the claim has it; the code leaves nets bare)
C7_NoOrphanNets ==
    RouteAllOver =>
        \A k \in 1..Len(internal_bus_list) :
            Cardinality(PinsOn(internal_bus_list[k])) >= 2

RowOf(i) == pos[i].row

RowInsts(r) == { i \in DOMAIN pos : RowOf(i) = r }

\* C8: in a row the first instance is at control_x_offset, every other one
\* starts at the right edge of an instance of the row, and no two overlap
C8_RowLeftToRight ==
    IsControl =>
        \A i \in DOMAIN pos : RowOf(i) >= 0 =>
            /\ \/ Lx(pos, i) = geom.control_x_offset
               \/ \E j \in RowInsts(RowOf(i)) \ {i} : Rx(pos, j) = Lx(pos, i)
            /\ Lx(pos, i) >= geom.control_x_offset
            /\ \A j \in RowInsts(RowOf(i)) \ {i} :
                   Rx(pos, i) <= Lx(pos, j) \/ Rx(pos, j) <= Lx(pos, i)

C8_Witness ==
    /\ IsControl /\ tech.w_gate = MaxW
    /\ {"inv_clk_bar", "and2_gated_clk_bar"} \subseteq DOMAIN pos
    /\ Lx(pos, "inv_clk_bar") = geom.control_x_offset
    /\ Lx(pos, "and2_gated_clk_bar") = geom.control_x_offset + MaxW

\* C9 as the claim has it: the y-offset of row N+1 is at least the y-offset of
\* row N plus the height of row N
C9_OffsetsStepByHeight ==
    IsControl =>
        \A i, j \in DOMAIN pos :
            (RowOf(i) >= 0 /\ RowOf(j) = RowOf(i) + 1) =>
                pos[j].y >= pos[i].y + InstHeight(i)

\* C9: row N+1 lies on or above the upper edge of row N; its y-offset is at
\* least row N's y-offset plus row N's height when N is even, and equal to row
\* N's y-offset when N is odd (an odd row is mirrored and its y-offset is its
\* upper edge)
C9_RowsStack ==
    IsControl =>
        \A i, j \in DOMAIN pos :
            (RowOf(i) >= 0 /\ RowOf(j) = RowOf(i) + 1) =>
                /\ By(pos, j) >= Uy(pos, i)
                /\ RowOf(i) % 2 = 0 => pos[j].y >= pos[i].y + InstHeight(i)
                /\ RowOf(i) % 2 = 1 => pos[j].y = pos[i].y

C9_Witness ==
    /\ IsControl /\ tech.h = MaxH
    /\ \E i, j \in DOMAIN pos :
          /\ RowOf(i) = 1 /\ RowOf(j) = 2
          /\ pos[j].y = pos[i].y /\ By(pos, j) = Uy(pos, i)

DeclaredNets ==
    SeqToSet(input_list) \cup SeqToSet(dff_output_list)
        \cup SeqToSet(internal_bus_list) \cup SeqToSet(output_list)

\* entries of the instance connection lists that name the net
InstRefs(net) ==
    UNION { { <<k, n>> : n \in { n \in 1..Len(insts[k].conns) : insts[k].conns[n] = net } } :
              k \in 1..Len(insts) }

\* connection points of a net: its entries in the connection lists and the
\* module pin of its name
ConnectionPoints(net) ==
    Cardinality(InstRefs(net))
        + Cardinality({ k \in 1..Len(pins) : pins[k][1] = net })

OrphanNets ==
    { net \in DeclaredNets : InstRefs(net) = {} \/ ConnectionPoints(net) <= 1 }

\* C12: when synthesis leaves a declared net without an instance reference or
\* with fewer than two connection points, no routing step completes and the
\* build ends in a synthesis-inconsistency error (stated as the claim has it;
\* the code routes on)
C12_OrphanNetIsFatal ==
    (SynthesisDone /\ ~cfg.netlist_only /\ OrphanNets # {}) =>
        /\ LET h == hist IN \A k \in 1..Len(h) : h[k].op \notin {"route_dffs", "route_wlen"}
        /\ status \notin {"running", "done"} => status = "SynthesisInconsistencyError"

\* C13: a build with layout requested and zero rows stops in synthesis on an
\* error: no placement step runs, no instance gets a position and no module
\* is returned
C13_ZeroRowsFailInSynthesis ==
    (~cfg.netlist_only /\ cfg.dims.num_rows = 0) =>
        /\ LET h == hist IN \A k \in 1..Len(h) : h[k].op \in SynthesisOps
        /\ DOMAIN pos = {} /\ geom.set = {}
        /\ status # "done"
        /\ status # "running" =>
              /\ status = "ValueError"
              /\ pc # <<>> /\ Head(pc).op \in {"add_modules", "rom_init"}

C13_Witness ==
    /\ IsControl /\ ~cfg.netlist_only /\ cfg.dims.num_rows = 0
    /\ status = "ValueError" /\ Head(pc).op = "add_modules"
    /\ insts = <<>> /\ DOMAIN pos = {}

\* C14: the flop count add_modules sizes the clock buffer with is
\* ceil(log2(num_rows)) + ceil(log2(words_per_row)) + word_size + spare columns
\* + control signals, and the clock fanout is five times that count plus five
\* (stated as the claim has it; the code counts words_per_row twice)
C14_FlopCount ==
    (IsControl /\ sizing.set) =>
        LET count == CeilLog2(cfg.dims.num_rows) + CeilLog2(cfg.dims.words_per_row)
                     + cfg.dims.word_size + cfg.dims.spare_columns
                     + (IF cfg.port_type = "rw" THEN 2 ELSE 1)
        IN  /\ sizing.num_flops = count
            /\ sizing.clock_fanout = 5 * count + 5

IsRom == cfg.kind = "rom_base_bank"

Ran(o) == LET h == hist IN \E k \in 1..Len(h) : h[k].op = o

ConnsOf(i) == LET k == CHOOSE k \in 1..Len(insts) : insts[k].name = i IN insts[k].conns

AddrBits == CeilLog2(cfg.dims.num_rows) + CeilLog2(cfg.dims.words_per_row)

ColBits == CeilLog2(cfg.dims.words_per_row)

AddrName(i) == "addr_" \o ToString(i)

\* decoder and decoder input that address bit i belongs to
AddrDecoder(i) == IF i < ColBits THEN "rom_column_decoder" ELSE "rom_row_decoder"
AddrInput(i)   == IF i < ColBits THEN i ELSE i - ColBits

\* C15: the ROM bank has the address pins addr_0 .. addr_{n-1} with
\* n = ceil(log2(rows)) + ceil(log2(words_per_row)) and no other; bit i is
\* connected to input i of the column decoder when i < col_bits and to input
\* i - col_bits of the row decoder otherwise, and to no other instance; the
\* layout pin addr_i sits on the same decoder input
C15_AddressPins ==
    IsRom =>
        /\ Ran("rom_add_pins") =>
              SelectSeq(pins, LAMBDA q : q[2] = "INPUT")
                  = <<<<"clk", "INPUT">>, <<"CS", "INPUT">>>>
                    \o [i \in 1..AddrBits |-> <<AddrName(i - 1), "INPUT">>]
        /\ Ran("rom_create_instances") =>
              \A i \in 0..(AddrBits - 1) :
                  /\ ConnsOf(AddrDecoder(i))[AddrInput(i) + 1] = AddrName(i)
                  /\ Cardinality(InstRefs(AddrName(i))) = 1
        /\ Ran("place_top_level_pins") =>
              /\ \A i \in 0..(AddrBits - 1) :
                    \E l \in layout_pins :
                        /\ l.name = AddrName(i)
                        /\ l.inst = AddrDecoder(i)
                        /\ l.pin = "A" \o ToString(AddrInput(i))
              /\ \A l \in layout_pins :
                    l.inst \in {"rom_column_decoder", "rom_row_decoder"}
                        /\ l.name \notin {"vdd", "gnd"} =>
                    \E i \in 0..(AddrBits - 1) :
                        /\ l.name = AddrName(i)
                        /\ l.inst = AddrDecoder(i)
                        /\ l.pin = "A" \o ToString(AddrInput(i))

C15_Witness ==
    /\ IsRom /\ cfg.dims.words_per_row = 2 /\ Ran("place_top_level_pins")
    /\ \E l \in layout_pins :
          l.name = "addr_0" /\ l.inst = "rom_column_decoder" /\ l.pin = "A0"
    /\ \E l \in layout_pins :
          l.name = "addr_2" /\ l.inst = "rom_row_decoder" /\ l.pin = "A1"

\* the modules a test is handed when it runs with no other run beside it
RECURSIVE MadeAlone(_, _)
MadeAlone(steps, o) ==
    IF steps = <<>> THEN <<>>
    ELSE IF Head(steps).do = "create"
         THEN <<Created(Head(steps), o)>> \o MadeAlone(Tail(steps), o)
         ELSE MadeAlone(Tail(steps), OptsAfter(Head(steps), o))

\* C16: whatever the interleaving, a finished run was handed the modules it is
\* handed when it runs alone, and no run has written the global options or
\* emptied the shared factory (stated as the claim has it; the runs write both)
C16_NoSharedState ==
    /\ \A r \in DOMAIN tpc :
          tpc[r].rest = <<>> => handed[r] = MadeAlone(TestOf(tpc[r].test), DefaultOpts)
    /\ opts = DefaultOpts
    /\ \A r \in DOMAIN handed :
          \A k \in 1..Len(handed[r]) :
              tpc[r].rest # <<>> /\ Head(tpc[r].rest).do = "end_openram" =>
                  <<handed[r][k].module_type, handed[r][k].args>> \in catalog

\* C17: every local wire joins two pins the netlist binds to one net, and
\* every pin attached to a bus track is bound to the net of that track (stated
\* as the claim has it; route_wlen joins two different nets)
C17_NoShorts ==
    IsControl =>
        /\ \A w \in wires : NetOf(w[1], w[2]) = NetOf(w[3], w[4])
        /\ \A a \in attached : NetOf(a[1], a[2]) = a[3]

\* C18: once route_all is over, every instance pin the netlist binds to a net
\* of the internal bus list is attached to the track of that net (stated as the
\* claim has it; the code leaves pins off the bus)
C18_EveryBoundPinAttached ==
    RouteAllOver =>
        \A k \in 1..Len(insts) :
            \A n \in 1..Len(insts[k].conns) :
                insts[k].conns[n] \in SeqToSet(internal_bus_list) =>
                    <<insts[k].name, ModPins(insts[k].mod)[n], insts[k].conns[n]>>
                        \in attached

SupplyOps == {"route_supply", "route_supplies"}

SignalRoutingOps ==
    {"route_rails", "route_dffs", "route_wlen", "route_wen", "route_sen",
     "route_delay", "route_pen", "route_clk_buf", "route_gated_clk_bar",
     "route_gated_clk_buf", "route_glitches",
     "route_decode_outputs", "route_precharge", "route_clock",
     "route_array_outputs", "place_top_level_pins", "route_output_buffers"}

\* C19: no signal-routing step runs once the supply-routing step has started
\* (stated as the claim has it; the ROM bank routes its output buffers after
\* its supplies)
C19_SupplyRoutedLast ==
    LET h == hist
    IN  /\ \A i, j \in 1..Len(h) :
              (i < j /\ h[i].op \in SupplyOps) => h[j].op \notin SignalRoutingOps
        /\ \A i \in 1..Len(h) :
              h[i].op \in SupplyOps =>
                  (status = "running" => Head(pc).op \notin SignalRoutingOps)

\* width of a channel with one track per net of the bus list and one spare
ChannelWidth == (Len(internal_bus_list) + 1) * m2_pitch

\* C20: the bus has one track per net of the internal bus list, the channel is
\* one track wider, it starts at the right edge of the flop array, and every
\* instance of a logic row is placed at or right of flop width + channel width
C20_BusChannel ==
    IsControl =>
        /\ "control_x_offset" \in geom.set =>
              geom.control_x_offset = ModWidth("ctrl_dff_array") + ChannelWidth
        /\ \A i \in DOMAIN pos : RowOf(i) >= 0 =>
              Lx(pos, i) >= ModWidth("ctrl_dff_array") + ChannelWidth
        /\ "input_bus" \in geom.set =>
              /\ input_bus = internal_bus_list
              /\ geom.bus_x = Rx(pos, "ctrl_dffs")
              /\ \A i \in DOMAIN pos : RowOf(i) >= 0 =>
                    geom.bus_x + (Len(input_bus) + 1) * m2_pitch <= Lx(pos, i)

C20_Witness ==
    /\ IsControl /\ cfg.port_type = "rw" /\ tech.w_dff = MaxW
    /\ "input_bus" \in geom.set /\ Len(input_bus) = 13
    /\ geom.bus_x = MaxW
    /\ Lx(pos, "clkbuf") = MaxW + 14 * m2_pitch

\* instances of the logic rows that have a position
InRows == { i \in DOMAIN pos : RowOf(i) >= 0 }

\* right-most instance edge over all logic rows
RowsRx == MaxOf({ Rx(pos, i) : i \in InRows })

\* upper edge of the topmost logic row
TopRowUy == MaxOf({ Uy(pos, i) : i \in InRows })

\* C21: once place_instances has assigned the size, the width is the right-most
\* instance edge over all rows plus the side margin and the height is the upper
\* edge of the topmost row plus the top margin (stated as the claim has it; the
\* code takes the height from the delay chain placed at row 4)
C21_SizeFromRows ==
    (IsControl /\ {"width", "height"} \subseteq geom.set) =>
        /\ geom.width = RowsRx + m2_pitch
        /\ geom.height = TopRowUy + 2 * m1_pitch

row_height == ModHeight("and2")

\* C22: an instance placed by place_util in row r has the y-offset and
\* orientation get_offset gives: (r * row_height, identity) when r is even,
\* ((r + 1) * row_height, mirrored about x) when r is odd; being of unit row
\* height it occupies the band [r * row_height, (r + 1) * row_height]
C22_RowsAlternate ==
    IsControl =>
        \A i \in InRows :
            LET r == RowOf(i)
            IN  /\ get_offset(r) = IF r % 2 = 0 THEN <<r * row_height, "R0">>
                                   ELSE <<(r + 1) * row_height, "MX">>
                /\ <<pos[i].y, pos[i].mirror>> = get_offset(r)
                /\ InstHeight(i) = row_height
                /\ By(pos, i) = r * row_height
                /\ Uy(pos, i) = (r + 1) * row_height

C22_Witness ==
    /\ IsControl /\ tech.h = MaxH
    /\ \E i, j \in InRows :
          /\ RowOf(i) = 4 /\ pos[i].mirror = "R0" /\ pos[i].y = 4 * MaxH
          /\ RowOf(j) = 5 /\ pos[j].mirror = "MX" /\ pos[j].y = 6 * MaxH
          /\ By(pos, j) = Uy(pos, i)

\* pin count of the child module of an instance
PinCount(m) == IF IsRom THEN Len(RomModPins(m)) ELSE Len(ModPins(m))

\* C23: every instance is connected with as many nets as its child module has
\* pins; the flop array with len(input_list) + len(dff_output_list) + 3
\* = 3 * num_control_signals + 3 nets and the delay chain with 8
C23_ConnectionsMatchPins ==
    /\ \A k \in 1..Len(insts) : Len(insts[k].conns) = PinCount(insts[k].mod)
    /\ \A k \in 1..Len(insts) :
          /\ insts[k].name = "ctrl_dffs" =>
                /\ Len(insts[k].conns) = Len(input_list) + Len(dff_output_list) + 3
                /\ Len(insts[k].conns) = 3 * num_control_signals + 3
          /\ insts[k].name = "multi_delay_chain" => Len(insts[k].conns) = 8

C23_Witness ==
    /\ IsControl /\ cfg.port_type = "rw" /\ status = "done"
    /\ Len(ConnsOf("ctrl_dffs")) = 9
    /\ Len(ConnsOf("multi_delay_chain")) = 8
    /\ Len(ConnsOf("and_w_en")) = 6

C23_WitnessRom ==
    /\ IsRom /\ cfg.dims.words_per_row = 2 /\ status = "done"
    /\ Len(ConnsOf("rom_column_mux")) = 18 + 2 + 9 + 1

\* names of the module's input and output pins
BoundarySignals == { pins[k][1] : k \in { k \in 1..Len(pins) : pins[k][2] \in {"INPUT", "OUTPUT"} } }

\* C24: once route_all is over, every input and output of the module has a
\* layout pin that ends at x = width (stated as the claim has it; the code
\* copies the input pins where the flops have them and stops before the pins
\* of p_en_bar, clk_buf and clk are made)
C24_BoundaryPinsReachEdge ==
    RouteAllOver =>
        \A n \in BoundarySignals :
            \E l \in layout_pins : l.name = n /\ l.x_end = geom.width

\* C25: a build configured with an even number of delay chain stages stops in
\* add_modules on the failed check, before the chain or any instance is
\* created; a delay chain that has been created has an odd number of stages
\* and every tap of its pinout list lies between 1 and that number
C25_StageParity ==
    IsControl =>
        /\ cfg.delay_chain_stages % 2 = 0 =>
              /\ "multi_delay_chain" \notin mods /\ insts = <<>>
              /\ sizing.fanout_list = <<>>
              /\ status # "done"
              /\ status # "running" =>
                    /\ status \in {"check_failed", "ValueError"}
                    /\ Head(pc).op = "add_modules"
        /\ "multi_delay_chain" \in mods =>
              /\ cfg.delay_chain_stages % 2 = 1
              /\ Len(sizing.fanout_list) % 2 = 1
              /\ \A k \in 1..Len(sizing.pinout_list) :
                    /\ sizing.pinout_list[k] >= 1
                    /\ sizing.pinout_list[k] <= Len(sizing.fanout_list)
        /\ \A k \in 1..Len(insts) : insts[k].mod = "multi_delay_chain" =>
              "multi_delay_chain" \in mods

C25_Witness ==
    /\ IsControl /\ cfg.delay_chain_stages % 2 = 0
    /\ status = "check_failed" /\ Head(pc).op = "add_modules"
    /\ sizing.set /\ insts = <<>>

C25_WitnessOdd ==
    /\ IsControl /\ cfg.delay_chain_stages = 3 /\ status = "done"
    /\ Len(sizing.fanout_list) = 29 /\ Len(sizing.pinout_list) = 5
    /\ \E k \in 1..Len(insts) : insts[k].mod = "multi_delay_chain"

\* place_instances has run to its end
PlacementDone == IsControl /\ "width" \in geom.set

\* C26: for the port types rw, r and w no instance is placed that was not
\* created and none is placed twice; when place_instances is over the placed
\* instances are the created ones, and row_end_inst has one entry per logic
\* row placed: 9 for rw, 8 for r and w
C26_PlacedAreCreated ==
    (IsControl /\ cfg.port_type \in PortTypes) =>
        /\ DOMAIN pos \subseteq InstNames
        /\ \A i \in DOMAIN pos : pos[i].times = 1
        /\ Len(row_end_inst) = Cardinality({ RowOf(i) : i \in InRows })
        /\ PlacementDone =>
              /\ DOMAIN pos = InstNames
              /\ Cardinality(InstNames) = Len(insts)
              /\ Len(row_end_inst) = IF cfg.port_type = "rw" THEN 9 ELSE 8

C26_Witness ==
    /\ PlacementDone /\ cfg.port_type = "w"
    /\ Len(row_end_inst) = 8 /\ Cardinality(DOMAIN pos) = 14
    /\ "nand2_glitch1" \in DOMAIN pos /\ "and_s_en" \notin InstNames

LayoutPinNames == { l.name : l \in layout_pins }

ModulePinNames == { pins[k][1] : k \in 1..Len(pins) }

\* C27: for the port types rw, r and w, once route_all is over the names of
\* the layout pins are the names of the module pin list (stated as the claim
\* has it; route_all stops in route_delay and leaves pins without a layout pin)
C27_LayoutPinsArePins ==
    (RouteAllOver /\ cfg.port_type \in PortTypes) => LayoutPinNames = ModulePinNames

\* C28: once width and height are assigned, every placed instance lies within
\* [0, width] x [0, height] (stated as the claim has it; the control logic
\* takes its height from the delay chain and the ROM bank its size from the
\* array, whatever else is placed)
C28_InstancesInsideModule ==
    {"width", "height"} \subseteq geom.set =>
        \A i \in DOMAIN pos :
            /\ 0 <= Lx(pos, i) /\ Rx(pos, i) <= geom.width
            /\ 0 <= By(pos, i) /\ Uy(pos, i) <= geom.height

\* the instances of the ROM bank in the order place_instances places them
RomPlaceOrder ==
    <<"rom_row_decoder", "rom_bit_array", "rom_bitline_inverter", "rom_column_mux",
      "rom_column_decoder", "rom_control", "rom_output_inverter">>

\* the instances are placed in this order
PlacedInOrder ==
    \E n \in 0..Len(RomPlaceOrder) : DOMAIN pos = { RomPlaceOrder[k] : k \in 1..n }

\* the instance a placement step of the ROM bank places
PlacedBy(o) ==
    CASE o = "place_row_decoder"      -> "rom_row_decoder"
      [] o = "place_data_array"       -> "rom_bit_array"
      [] o = "place_bitline_inverter" -> "rom_bitline_inverter"
      [] o = "place_col_mux"          -> "rom_column_mux"
      [] o = "place_col_decoder"      -> "rom_column_decoder"
      [] o = "place_control_logic"    -> "rom_control"
      [] OTHER                        -> "rom_output_inverter"

\* C29 as the claim has it: no placement step of the ROM bank reads an edge or
\* a pin location of an instance that no earlier step has placed
C29_ReadsOnlyPlaced ==
    IsRom =>
        /\ PlacedInOrder
        /\ status # "unplaced_read"
        /\ geom.origin_reads = {}

\* C29: the ROM bank places its instances in the order row decoder, array,
\* bitline inverter, column mux, column decoder, control logic, output buffer;
\* a step reads edges and pin locations of instances an earlier step has
\* placed and of the instance it places itself, whose pins it may read before
\* placing it
C29_ReadsPlacedOrOwn ==
    IsRom =>
        /\ PlacedInOrder
        /\ status # "unplaced_read"
        /\ \A q \in geom.origin_reads : PlacedBy(q[1]) = q[2]

C29_Witness ==
    /\ IsRom /\ DOMAIN pos = SeqToSet(RomPlaceOrder)
    /\ geom.origin_reads = {<<"place_col_mux", "rom_column_mux">>,
                            <<"place_col_decoder", "rom_column_decoder">>}

\* a pass of the loop that stays in the loop raises one fanout by one
OneFanoutRaised ==
    (sz_out.state = "looping" /\ sz_out'.state = "looping") =>
        \/ /\ sz_out'.fanout_fall = sz_out.fanout_fall + 1
           /\ sz_out'.fanout_rise = sz_out.fanout_rise
        \/ /\ sz_out'.fanout_rise = sz_out.fanout_rise + 1
           /\ sz_out'.fanout_fall = sz_out.fanout_fall

\* C30: every call of get_dynamic_delay_fanout_list leaves its loop and
\* returns; a pass that stays in the loop raises one fanout by one, the loop
\* is left only with equal stage counts or by the safety break, no fanout
\* reaches the cap of the model, and safe_fanout_rise / safe_fanout_fall are
\* never read before they are assigned
C30_LoopTerminates ==
    /\ <>(sz_out.state = "returned")
    /\ [][OneFanoutRaised]_vars
    /\ [](sz_out.state # "UnboundLocalError")
    /\ [](sz_out.state = "looping" =>
              (sz_out.fanout_fall < FanoutCap /\ sz_out.fanout_rise < FanoutCap))
    /\ [](sz_out.state = "returned" =>
              \/ sz_out.exit = "equal" /\ sz_out.stages_fall = sz_out.stages_rise
              \/ /\ sz_out.exit = "safety" /\ sz_out.safe_assigned
                 /\ Abs(sz_out.stages_fall - sz_out.stages_rise) = 1)

C30_Witness ==
    /\ sz_in.f = "get_dynamic_delay_fanout_list"
    /\ sz_out.state = "returned" /\ sz_out.exit = "safety"
    /\ sz_out.safe_assigned
    /\ sz_out.fanout_fall = sz_out.safe_fanout_fall
    /\ sz_out.fanout_rise = sz_out.safe_fanout_rise

C30_WitnessEqual ==
    /\ sz_in.f = "get_dynamic_delay_fanout_list"
    /\ sz_out.state = "returned" /\ sz_out.exit = "equal"
    /\ sz_out.fanout_fall >= 4 /\ sz_out.stages_close

====
